---- MODULE Spec2Model ----
(***************************************************************************)
(* Model of the email validation service: the classifier of                *)
(* "src/app/ main.py" (format check, disposable / MX / role detection,     *)
(* scoring, /verify and /batch) and the API-key middleware of              *)
(* src/app/middleware.py over the tables of src/app/db.py.                 *)
(*                                                                         *)
(* Strings are sequences of one-character strings, so that len(), strip(), *)
(* lower(), split() and the regular expression are computed, not assumed.  *)
(***************************************************************************)
EXTENDS Integers, Sequences, FiniteSets, TLC

VARIABLES
    api_keys,      \* table api_keys of db.py: key -> [status, daily_quota]
    api_usage,     \* table api_usage of db.py: <<api_key, date>> -> count
    requests,      \* the requests the middleware is handling
    DOMAIN_CACHE,  \* DOMAIN_CACHE of " main.py": domain -> [disposable, mx_record]
    last,          \* the last call of /verify or /batch and its response
    scored         \* arguments and result of one call of calculate_email_score

vars == <<api_keys, api_usage, requests, DOMAIN_CACHE, last, scored>>

(***************************************************************************)
(* Characters and the str methods the code uses                            *)
(***************************************************************************)
LowerSeq == <<"a","b","c","d","e","f","g","h","i","j","k","l","m",
              "n","o","p","q","r","s","t","u","v","w","x","y","z">>

UpperSeq == <<"A","B","C","D","E","F","G","H","I","J","K","L","M",
              "N","O","P","Q","R","S","T","U","V","W","X","Y","Z">>

Digits == {"0","1","2","3","4","5","6","7","8","9"}

DigitSeq == <<"0","1","2","3","4","5","6","7","8","9">>

Alpha == {LowerSeq[i] : i \in 1..26} \cup {UpperSeq[i] : i \in 1..26}

\* [a-zA-Z0-9._%+-]
LocalChars == Alpha \cup Digits \cup {".", "_", "%", "+", "-"}

\* [a-zA-Z0-9.-]
DomainChars == Alpha \cup Digits \cup {".", "-"}

Whitespace == {" "}

Chars == LocalChars \cup Whitespace \cup {"@"}

\* the lowercase of each character: an uppercase letter's, else the character
LowerChar ==
    [c \in Chars |->
        IF \E i \in 1..26 : UpperSeq[i] = c
        THEN LowerSeq[CHOOSE i \in 1..26 : UpperSeq[i] = c]
        ELSE c]

\* str.lower()
lower(s) == [k \in 1..Len(s) |-> LowerChar[s[k]]]

\* str.strip(): leading and trailing whitespace removed
strip(s) ==
    IF \A k \in 1..Len(s) : s[k] \in Whitespace THEN <<>>
    ELSE LET a == CHOOSE k \in 1..Len(s) :
                      s[k] \notin Whitespace /\ \A m \in 1..(k - 1) : s[m] \in Whitespace
             b == CHOOSE k \in 1..Len(s) :
                      s[k] \notin Whitespace /\ \A m \in (k + 1)..Len(s) : s[m] \in Whitespace
         IN  SubSeq(s, a, b)

\* positions of "@" in s
Ats(s) == {k \in 1..Len(s) : s[k] = "@"}

FirstAt(s) == CHOOSE k \in Ats(s) : \A m \in Ats(s) : k <= m

\* s.split("@")[0]: everything before the first "@" (the whole string if none)
Split0(s) == IF Ats(s) = {} THEN s ELSE SubSeq(s, 1, FirstAt(s) - 1)

\* s.split("@")[1]: between the first "@" and the next one (or the end);
\* defined only when s holds an "@" (IndexError otherwise).
Split1(s) ==
    LET a    == FirstAt(s)
        rest == {k \in Ats(s) : k > a}
        b    == IF rest = {} THEN Len(s) + 1
                ELSE CHOOSE k \in rest : \A m \in rest : k <= m
    IN  SubSeq(s, a + 1, b - 1)

RECURSIVE IntDigits(_)
IntDigits(n) ==
    IF n < 10 THEN <<DigitSeq[n + 1]>>
    ELSE Append(IntDigits(n \div 10), DigitSeq[(n % 10) + 1])

\* str(x) of a decoded JSON value: a string is itself, a non-negative integer
\* its decimal digits, null the text None.
str(x) ==
    CASE x.t = "str"  -> x.s
      [] x.t = "int"  -> IntDigits(x.n)
      [] x.t = "null" -> <<"N","o","n","e">>

(***************************************************************************)
(* Configuration data of "src/app/ main.py"                                *)
(***************************************************************************)
DISPOSABLE_DOMAINS == {
    <<"t","e","m","p","m","a","i","l",".","c","o","m">>,
    <<"m","a","i","l","i","n","a","t","o","r",".","c","o","m">>,
    <<"y","o","p","m","a","i","l",".","c","o","m">>,
    <<"1","0","m","i","n","u","t","e","m","a","i","l",".","c","o","m">>,
    <<"g","u","e","r","r","i","l","l","a","m","a","i","l",".","c","o","m">>,
    <<"t","r","a","s","h","m","a","i","l",".","c","o","m">>,
    <<"f","a","k","e","i","n","b","o","x",".","c","o","m">>,
    <<"t","h","r","o","w","a","w","a","y","m","a","i","l",".","c","o","m">>,
    <<"g","e","t","a","i","r","m","a","i","l",".","c","o","m">>,
    <<"s","h","a","r","k","l","a","s","e","r","s",".","c","o","m">>,
    <<"g","u","e","r","r","i","l","l","a","m","a","i","l",".","i","n","f","o">>,
    <<"d","i","s","p","o","s","t","a","b","l","e",".","c","o","m">>,
    <<"t","e","m","p","-","m","a","i","l",".","o","r","g">>,
    <<"m","a","i","l","n","e","s","i","a",".","c","o","m">> }

ROLE_PREFIXES == {
    <<"a","d","m","i","n">>, <<"i","n","f","o">>,
    <<"s","u","p","p","o","r","t">>, <<"s","a","l","e","s">>,
    <<"c","o","n","t","a","c","t">> }

popular_domains == {
    <<"g","m","a","i","l",".","c","o","m">>,
    <<"y","a","h","o","o",".","c","o","m">>,
    <<"o","u","t","l","o","o","k",".","c","o","m">>,
    <<"h","o","t","m","a","i","l",".","c","o","m">> }

\* PLANS[plan]["strict_mode"]; a plan that is no key of PLANS gives False
PLANS == [free |-> FALSE, basic |-> TRUE, pro |-> TRUE, enterprise |-> TRUE]

PlanStrict(plan) == IF plan \in DOMAIN PLANS THEN PLANS[plan] ELSE FALSE

MaxEmailLen == 254

MaxBatchLen == 100

BaseScore == 85

DisposableScore == 30

RolePenalty == 20

MxPenalty == 30

PopularFloor == 95

(***************************************************************************)
(* The classifier's functions                                              *)
(***************************************************************************)
\* re.match(r'^[a-zA-Z0-9._%+-]+@[a-zA-Z0-9.-]+\.[a-zA-Z]{2,}$', email):
\* some "@" at i and some "." at j split the string into a non-empty local
\* part, a non-empty domain head and a final label of two or more letters.
\* (The strings here never end in a line break, so $ is the end.)
validate_email_format(email) ==
    \E i \in 1..Len(email) :
        /\ email[i] = "@"
        /\ i > 1
        /\ \A k \in 1..(i - 1) : email[k] \in LocalChars
        /\ \E j \in (i + 2)..Len(email) :
              /\ email[j] = "."
              /\ \A k \in (i + 1)..(j - 1) : email[k] \in DomainChars
              /\ Len(email) - j >= 2
              /\ \A k \in (j + 1)..Len(email) : email[k] \in Alpha

\* is_disposable_domain: the cached flag when the domain is cached, else set
\* membership of the lowercased domain, cached with mx_record None.
is_disposable_domain(cache, domain) ==
    IF domain \in DOMAIN cache
    THEN [ret |-> cache[domain].disposable, cache |-> cache]
    ELSE LET disposable == lower(domain) \in DISPOSABLE_DOMAINS
         IN  [ret   |-> disposable,
              cache |-> [d \in (DOMAIN cache) \cup {domain} |->
                            IF d = domain
                            THEN [disposable |-> disposable, mx_record |-> "None"]
                            ELSE cache[d]]]

\* has_mx_record: the cached answer when there is one; else the resolver's
\* (resolves: dns.resolver.resolve returned; otherwise it raised), stored in the
\* domain's cache entry. Storing into a missing entry raises KeyError, in the
\* try block and again in the except block, so it propagates.
has_mx_record(cache, domain, resolves) ==
    IF domain \in DOMAIN cache /\ cache[domain].mx_record # "None"
    THEN [raised |-> FALSE, ret |-> (cache[domain].mx_record = "True"), cache |-> cache]
    ELSE IF domain \notin DOMAIN cache
    THEN [raised |-> TRUE, ret |-> FALSE, cache |-> cache]
    ELSE [raised |-> FALSE,
          ret    |-> resolves,
          cache  |-> [cache EXCEPT ![domain].mx_record =
                         IF resolves THEN "True" ELSE "False"]]

is_role_email(email) == lower(Split0(email)) \in ROLE_PREFIXES

Max(a, b) == IF a >= b THEN a ELSE b

Min(a, b) == IF a <= b THEN a ELSE b

\* A slip the scoring could have: the popular-domain floor applied before the
\* role and MX penalties instead of after them.
calculate_email_score_FloorFirst(email, valid, disposable, mx_record, role_email) ==
    IF ~valid THEN 0
    ELSE LET s1 == IF disposable THEN DisposableScore ELSE BaseScore
             s2 == IF lower(Split1(email)) \in popular_domains
                   THEN Max(s1, PopularFloor) ELSE s1
             s3 == IF role_email THEN s2 - RolePenalty ELSE s2
             s4 == IF ~mx_record THEN s3 - MxPenalty ELSE s3
         IN  Max(0, Min(100, s4))

\* A slip the scoring could have: disposable subtracts instead of overriding.
calculate_email_score_Subtract(email, valid, disposable, mx_record, role_email) ==
    IF ~valid THEN 0
    ELSE LET s1 == IF disposable THEN BaseScore - DisposableScore ELSE BaseScore
             s2 == IF role_email THEN s1 - RolePenalty ELSE s1
             s3 == IF ~mx_record THEN s2 - MxPenalty ELSE s2
             s4 == IF lower(Split1(email)) \in popular_domains
                   THEN Max(s3, PopularFloor) ELSE s3
         IN  Max(0, Min(100, s4))

calculate_email_score(email, valid, disposable, mx_record, role_email) ==
    IF ~valid THEN 0
    ELSE LET s0 == BaseScore
             s1 == IF disposable THEN DisposableScore ELSE s0
             s2 == IF role_email THEN s1 - RolePenalty ELSE s1
             s3 == IF ~mx_record THEN s2 - MxPenalty ELSE s2
             domain == lower(Split1(email))
             s4 == IF domain \in popular_domains THEN Max(s3, PopularFloor) ELSE s3
         IN  Max(0, Min(100, s4))

determine_risk(disposable, role_email, mx_record) ==
    IF disposable \/ ~mx_record THEN "high"
    ELSE IF role_email THEN "medium"
    ELSE "low"

(***************************************************************************)
(* Inputs                                                                   *)
(***************************************************************************)
\* How many characters past MaxEmailLen the over-long inputs are.
Excess == 1

\* How many entries the enumerated batches hold at most (the over-cap batch
\* of MaxBatchLen + 1 entries is enumerated besides).
MaxBatch == 2

Repeat(c, n) == [i \in 1..n |-> c]

AtGmailCom == <<"@","g","m","a","i","l",".","c","o","m">>

TestGmail == <<"t","e","s","t","@","g","m","a","i","l",".","c","o","m">>

AdminGmail == <<"A","d","m","i","n","@","G","m","a","i","l",".","c","o","m">>

AdminMailinator ==
    <<"a","d","m","i","n","@","m","a","i","l","i","n","a","t","o","r",".","c","o","m">>

PaddedBob ==
    <<" ","b","o","b","@","M","a","i","l","i","n","a","t","o","r",".","C","O","M"," ">>

SalesB == <<"s","a","l","e","s","@","b",".","c","o","m">>

BobB == <<"b","o","b","@","b",".","c","o","m">>

NotAnEmail == <<"n","o","t","-","a","n","-","e","m","a","i","l">>

ShortTld == <<"a","@","b",".","c">>

\* local@gmail.com of exactly MaxEmailLen characters
LimitPopular == Repeat("a", MaxEmailLen - Len(AtGmailCom)) \o AtGmailCom

\* local@gmail.com of MaxEmailLen + Excess characters
LongPopular == Repeat("a", MaxEmailLen + Excess - Len(AtGmailCom)) \o AtGmailCom

\* the email query parameter of /verify ('' when it is missing)
VerifyEmails ==
    {TestGmail, AdminGmail, PaddedBob, NotAnEmail, <<>>, LimitPopular, LongPopular}

\* the plan query parameter: a plan without strict mode, one with it, and one
\* that is no key of PLANS
VerifyPlans == {"free", "pro", "gold"}

StrictArgs == {<<"T","R","U","E">>, <<"f","a","l","s","e">>}

StrEntry(s) == [t |-> "str", s |-> s, n |-> 0]

IntEntry(n) == [t |-> "int", s |-> <<>>, n |-> n]

\* entries of the "emails" array of /batch
BatchEntries ==
    {StrEntry(s) : s \in {AdminGmail, NotAnEmail, LongPopular}} \cup {IntEntry(123)}

Batches ==
    UNION {[1..n -> BatchEntries] : n \in 0..MaxBatch}
        \cup {Repeat(StrEntry(NotAnEmail), MaxBatchLen + 1)}

(***************************************************************************)
(* /verify and /batch                                                       *)
(***************************************************************************)
NoError == "(no error key)"

\* F of the value of v, v being computed once.
With(v, F(_)) == CHOOSE r \in {F(x) : x \in {v}} : TRUE

\* The flags and score of one valid-format email, given the outcome d of
\* is_disposable_domain and m of has_mx_record.
Scored(email, d, m) ==
    With(is_role_email(email), LAMBDA role :
        [raised |-> m.raised, valid_format |-> TRUE, disposable |-> d.ret,
         mx_record |-> m.ret, role_email |-> role,
         score |-> calculate_email_score(email, TRUE, d.ret, m.ret, role),
         cache |-> m.cache])

\* Lines 127-132 of verify_email and 173-178 of batch_verify: the same chain.
\* dns[d] tells whether dns.resolver.resolve(d, 'MX') returns (else it raises).
Pipeline(cache, email, dns) ==
    IF ~validate_email_format(email)
    THEN [raised |-> FALSE, valid_format |-> FALSE, disposable |-> FALSE,
          mx_record |-> FALSE, role_email |-> FALSE,
          score |-> calculate_email_score(email, FALSE, FALSE, FALSE, FALSE),
          cache |-> cache]
    ELSE With(lower(Split1(email)), LAMBDA domain :
            With(is_disposable_domain(cache, domain), LAMBDA d :
                With(has_mx_record(d.cache, domain, dns[domain]), LAMBDA m :
                    Scored(email, d, m))))

SuggestProvider == "Use a professional email provider (Gmail, Outlook, etc.)"

SuggestRole == "Avoid role-based emails like info@, admin@, support@"

SuggestDomain == "Consider using a more reputable email domain"

Suggestions(disposable, role_email, score) ==
    (IF disposable THEN <<SuggestProvider>> ELSE <<>>)
        \o (IF role_email THEN <<SuggestRole>> ELSE <<>>)
        \o (IF score < 50 THEN <<SuggestDomain>> ELSE <<>>)

NoVerify ==
    [status |-> 0, kind |-> "none", error |-> NoError, email |-> <<>>,
     valid_format |-> FALSE, disposable |-> FALSE, mx_record |-> FALSE,
     role_email |-> FALSE, risk_level |-> "high", score |-> 0, message |-> "",
     suggestions |-> <<>>]

\* Lines 134-156 of verify_email: the strict-mode override and the body, from
\* the pipeline's outcome p. An exception escaping the handler is a 500.
verify_result(email, strict, p) ==
    IF p.raised
    THEN [resp  |-> [NoVerify EXCEPT !.status = 500, !.kind = "error",
                                     !.error = "Internal server error"],
          cache |-> p.cache]
    ELSE With(IF strict /\ (p.disposable \/ p.role_email \/ ~p.mx_record)
              THEN 0 ELSE p.score, LAMBDA score :
            [resp  |-> [status |-> 200, kind |-> "result", error |-> NoError,
                        email |-> email, valid_format |-> p.valid_format,
                        disposable |-> p.disposable, mx_record |-> p.mx_record,
                        role_email |-> p.role_email,
                        risk_level |-> determine_risk(p.disposable, p.role_email,
                                                      p.mx_record),
                        score |-> score, message |-> "",
                        suggestions |-> Suggestions(p.disposable, p.role_email,
                                                    score)],
             cache |-> p.cache])

\* The response of verify_email to the stripped email and the cache it leaves.
\* kind tells the three bodies apart: "error" (only an error key), "too_long"
\* (no suggestions, a message) and "result".
verify_stripped(cache, email, strict, dns) ==
    IF email = <<>>
    THEN [resp  |-> [NoVerify EXCEPT !.status = 400, !.kind = "error",
                                     !.error = "Email parameter is required"],
          cache |-> cache]
    ELSE IF Len(email) > MaxEmailLen
    THEN [resp  |-> [NoVerify EXCEPT !.status = 200, !.kind = "too_long",
                         !.email = email,
                         !.message = "Email too long (max 254 characters)"],
          cache |-> cache]
    ELSE With(Pipeline(cache, email, dns), LAMBDA p : verify_result(email, strict, p))

verify_response(cache, email_arg, plan, strict_arg, dns) ==
    With(strip(email_arg), LAMBDA email :
        verify_stripped(cache, email,
            (lower(strict_arg) = <<"t","r","u","e">>) /\ PlanStrict(plan), dns))

\* The two bodies of the for loop of batch_verify: the try body's result from
\* the pipeline's outcome p, or the except body's when it raised.
batch_result(email, p) ==
    IF p.raised
    THEN [result |-> [email |-> email, valid_format |-> FALSE,
                      disposable |-> FALSE, mx_record |-> FALSE,
                      role_email |-> FALSE, risk_level |-> "high", score |-> 0,
                      error |-> "Processing error"],
          cache  |-> p.cache]
    ELSE [result |-> [email |-> email, valid_format |-> p.valid_format,
                      disposable |-> p.disposable, mx_record |-> p.mx_record,
                      role_email |-> p.role_email,
                      risk_level |-> determine_risk(p.disposable, p.role_email,
                                                    p.mx_record),
                      score |-> p.score, error |-> NoError],
          cache  |-> p.cache]

\* A slip the loop could have: email.strip() without str(email), so that an
\* entry that is no string raises AttributeError and takes the except body.
batch_item_NoStr(cache, entry, dns) ==
    IF entry.t # "str"
    THEN batch_result(<<>>, [raised |-> TRUE, cache |-> cache])
    ELSE With(strip(entry.s), LAMBDA email :
            With(Pipeline(cache, email, dns), LAMBDA p : batch_result(email, p)))

\* One pass of the for loop of batch_verify.
batch_item(cache, entry, dns) ==
    With(strip(str(entry)), LAMBDA email :
        With(Pipeline(cache, email, dns), LAMBDA p : batch_result(email, p)))

\* The for loop of batch_verify over emails[i..], results appended in order.
\* dns[d] is the resolver's answer for domain d during this call: a domain is
\* resolved at most once in a call, its answer being cached from then on.
RECURSIVE batch_loop(_, _, _, _, _)
batch_loop(cache, emails, dns, i, results) ==
    IF i > Len(emails) THEN [results |-> results, cache |-> cache]
    ELSE With(batch_item(cache, emails[i], dns), LAMBDA r :
            batch_loop(r.cache, emails, dns, i + 1, Append(results, r.result)))

\* the domains a call may have to resolve (none when the batch is refused)
DomainsOf(emails) ==
    IF Len(emails) > MaxBatchLen THEN {}
    ELSE {lower(Split1(strip(str(emails[i])))) :
            i \in {k \in 1..Len(emails) : validate_email_format(strip(str(emails[k])))}}

NoBatch ==
    [status |-> 0, error |-> NoError, total_emails |-> 0, processed |-> 0,
     results |-> <<>>]

\* payload: "none" (no JSON body, or an empty one), "nokey" (no 'emails'),
\* "notlist" ('emails' is no array), "list"
batch_response(cache, payload, emails, dns) ==
    IF payload \in {"none", "nokey"}
    THEN [resp  |-> [NoBatch EXCEPT !.status = 400,
                        !.error = "JSON payload with 'emails' array is required"],
          cache |-> cache]
    ELSE IF payload = "notlist"
    THEN [resp  |-> [NoBatch EXCEPT !.status = 400,
                                    !.error = "'emails' must be an array"],
          cache |-> cache]
    ELSE IF Len(emails) > MaxBatchLen
    THEN [resp  |-> [NoBatch EXCEPT !.status = 400,
                                    !.error = "Maximum 100 emails per batch"],
          cache |-> cache]
    ELSE With(batch_loop(cache, emails, dns, 1, <<>>), LAMBDA l :
            [resp  |-> [NoBatch EXCEPT !.status = 200,
                                       !.total_emails = Len(emails),
                                       !.processed = Len(l.results),
                                       !.results = l.results],
             cache |-> l.cache])

(***************************************************************************)
(* State                                                                    *)
(***************************************************************************)
EmptyCache == [d \in {} |-> [disposable |-> FALSE, mx_record |-> "None"]]

\* the last call served and its response
NoCall ==
    [op |-> "none", email_arg |-> <<>>, plan |-> "free", strict_arg |-> <<>>,
     payload |-> "none", emails |-> <<>>, verify |-> NoVerify, batch |-> NoBatch]

NoScore == 0 - 1

NoScored ==
    [email |-> <<>>, valid |-> FALSE, disposable |-> FALSE, mx_record |-> FALSE,
     role_email |-> FALSE, out |-> NoScore]

NoKeys == [k \in {} |-> [status |-> "active", daily_quota |-> 1]]

NoUsage == [p \in {} |-> 0]

NoRequests == [r \in {} |-> 0]

(***************************************************************************)
(* The classifier's routes                                                  *)
(***************************************************************************)
verify_email ==
    \E email_arg \in VerifyEmails, plan \in VerifyPlans, strict_arg \in StrictArgs :
      \E dns \in [DomainsOf(<<StrEntry(email_arg)>>) -> BOOLEAN] :
        \E v \in {verify_response(DOMAIN_CACHE, email_arg, plan, strict_arg, dns)} :
            /\ DOMAIN_CACHE' = v.cache
            /\ last' = [NoCall EXCEPT !.op = "verify", !.email_arg = email_arg,
                                      !.plan = plan, !.strict_arg = strict_arg,
                                      !.verify = v.resp]
            /\ UNCHANGED <<api_keys, api_usage, requests, scored>>

batch_verify ==
    \E payload \in {"none", "nokey", "notlist", "list"} :
      \E emails \in (IF payload = "list" THEN Batches ELSE {<<>>}) :
        \E dns \in [DomainsOf(emails) -> BOOLEAN] :
          \E b \in {batch_response(DOMAIN_CACHE, payload, emails, dns)} :
              /\ DOMAIN_CACHE' = b.cache
              /\ last' = [NoCall EXCEPT !.op = "batch", !.payload = payload,
                                        !.emails = emails, !.batch = b.resp]
              /\ UNCHANGED <<api_keys, api_usage, requests, scored>>

InitClassify ==
    /\ DOMAIN_CACHE = EmptyCache
    /\ last = NoCall
    /\ scored = NoScored
    /\ api_keys = NoKeys
    /\ api_usage = NoUsage
    /\ requests = NoRequests

NextClassify == verify_email \/ batch_verify

SpecClassify == InitClassify /\ [][NextClassify]_vars

(***************************************************************************)
(* calculate_email_score on its own                                         *)
(***************************************************************************)
ScoreEmails ==
    {TestGmail, AdminGmail, AdminMailinator, strip(PaddedBob), SalesB, BobB,
     NotAnEmail, ShortTld, LimitPopular}

InitScore ==
    /\ \E email \in ScoreEmails, disposable \in BOOLEAN, mx_record \in BOOLEAN,
          role_email \in BOOLEAN :
          scored = [email |-> email, valid |-> validate_email_format(email),
                    disposable |-> disposable, mx_record |-> mx_record,
                    role_email |-> role_email, out |-> NoScore]
    /\ DOMAIN_CACHE = EmptyCache
    /\ last = NoCall
    /\ api_keys = NoKeys
    /\ api_usage = NoUsage
    /\ requests = NoRequests

Score ==
    /\ scored.out = NoScore
    /\ scored' = [scored EXCEPT !.out =
                     calculate_email_score(scored.email, scored.valid,
                         scored.disposable, scored.mx_record, scored.role_email)]
    /\ UNCHANGED <<api_keys, api_usage, requests, DOMAIN_CACHE, last>>

NextScore == Score

SpecScore == InitScore /\ [][NextScore]_vars

(***************************************************************************)
(* The API-key middleware (src/app/middleware.py over src/app/db.py)        *)
(***************************************************************************)
\* How many requests are in flight at most.
MaxReq == 2

\* The largest daily_quota a provisioned key has.
MaxQuota == 2

\* the key of the api_keys table whose row the initial states vary
Keys == {"k1"}

\* the value of the X-API-Key header; NoHeader when it is missing or empty
NoHeader == ""

Headers == {NoHeader, "k1", "bogus"}

Routes == {"/", "/health", "/verify"}

\* the routes the service is meant to serve without a key
AllowList == {"/", "/health"}

Today == "today"

\* get_api_key: None when no row has the key, else a dict of the row
get_api_key(keys, key) ==
    IF key \in DOMAIN keys
    THEN [none |-> FALSE, type |-> "dict", key |-> key,
          status |-> keys[key].status, daily_quota |-> keys[key].daily_quota]
    ELSE [none |-> TRUE, type |-> "NoneType", key |-> key, status |-> "",
          daily_quota |-> 0]

\* get_usage: the row's count, 0 when (key, today) has no row
get_usage(usage, key, today) ==
    IF <<key, today>> \in DOMAIN usage THEN usage[<<key, today>>] ELSE 0

\* obj.status: an attribute read. A dict's entries are no attributes, so on
\* the dict get_api_key returns it raises AttributeError.
getattr_status(obj) ==
    IF obj.type = "dict"
    THEN [raised |-> TRUE, value |-> ""]
    ELSE [raised |-> FALSE, value |-> obj.status]

\* Lines 6-17 of api_key_middleware: the response it raises, or passed when
\* the request goes on to line 19. An exception other than HTTPException is
\* the server's 500.
authenticate(keys, api_key) ==
    LET key_data == get_api_key(keys, api_key)
        st       == getattr_status(key_data)
    IN  IF api_key = NoHeader
        THEN [passed |-> FALSE, status |-> 401, detail |-> "API key missing"]
        ELSE IF key_data.none
        THEN [passed |-> FALSE, status |-> 403, detail |-> "Invalid API key"]
        ELSE IF st.raised
        THEN [passed |-> FALSE, status |-> 500, detail |-> "AttributeError"]
        ELSE IF st.value # "active"
        THEN [passed |-> FALSE, status |-> 403, detail |-> "API key suspended"]
        ELSE [passed |-> TRUE, status |-> 0, detail |-> ""]

Idle == [pc |-> "idle", app |-> "", route |-> "", api_key |-> NoHeader,
         status |-> 0, detail |-> "", handled |-> FALSE]

\* A request arrives at one of the two applications: the Flask application
\* of "src/app/ main.py" (its before_request hook) or an application that
\* calls the middleware with (request, call_next).
arrive(r) ==
    /\ requests[r].pc = "idle"
    /\ \E app \in {"flask", "asgi"}, route \in Routes, api_key \in Headers :
          requests' = [requests EXCEPT ![r] =
                          [Idle EXCEPT !.pc = "received", !.app = app,
                                       !.route = route, !.api_key = api_key]]
    /\ UNCHANGED <<api_keys, api_usage, DOMAIN_CACHE, last, scored>>

\* before_request runs before every route and calls api_key_middleware(), a
\* function of two required parameters, with none: TypeError, which the
\* application answers with its 500 handler. No route function runs.
before_request(r) ==
    /\ requests[r].pc = "received"
    /\ requests[r].app = "flask"
    /\ requests' = [requests EXCEPT ![r].pc = "done", ![r].status = 500,
                                    ![r].detail = "TypeError"]
    /\ UNCHANGED <<api_keys, api_usage, DOMAIN_CACHE, last, scored>>

\* api_key_middleware(request, call_next), whatever the route: lines 6-17.
\* Every outcome of authenticate that the tables allow ends the request, so
\* lines 19-28 (get_usage, call_next, increment_usage) never run.
api_key_middleware(r) ==
    /\ requests[r].pc = "received"
    /\ requests[r].app = "asgi"
    /\ LET a == authenticate(api_keys, requests[r].api_key)
       IN  requests' = [requests EXCEPT
                           ![r].pc = IF a.passed THEN "line19" ELSE "done",
                           ![r].status = a.status,
                           ![r].detail = a.detail]
    /\ UNCHANGED <<api_keys, api_usage, DOMAIN_CACHE, last, scored>>

\* The tables are provisioned outside the service: one key, active or
\* suspended, with its quota and today's count.
InitGuard ==
    /\ \E status \in {"active", "suspended"}, daily_quota \in 1..MaxQuota :
          api_keys = [k \in Keys |-> [status |-> status, daily_quota |-> daily_quota]]
    /\ \E count \in 0..MaxQuota :
          api_usage = [p \in (IF count = 0 THEN {} ELSE {<<"k1", Today>>}) |-> count]
    /\ requests = [r \in 1..MaxReq |-> Idle]
    /\ DOMAIN_CACHE = EmptyCache
    /\ last = NoCall
    /\ scored = NoScored

NextGuard ==
    \E r \in 1..MaxReq :
        arrive(r) \/ before_request(r) \/ api_key_middleware(r)

SpecGuard == InitGuard /\ [][NextGuard]_vars

(***************************************************************************)
(* Properties of the classifier                                             *)
(***************************************************************************)
EndsWith(s, t) ==
    Len(s) >= Len(t) /\ SubSeq(s, Len(s) - Len(t) + 1, Len(s)) = t

\* the address is at one of the four popular providers, in any letter case
PopularAddress(email) ==
    \E d \in popular_domains : EndsWith(lower(email), <<"@">> \o d)

\* strict mode is requested and the plan enables it
StrictInEffect ==
    /\ lower(last.strict_arg) = <<"t","r","u","e">>
    /\ last.plan \in {"basic", "pro", "enterprise"}

VerifyResult == last.op = "verify" /\ last.verify.kind = "result"

BatchDone == last.op = "batch" /\ last.batch.status = 200

\* the precedence the score is specified by
SpecifiedScore(email, disposable, mx_record, role_email) ==
    LET a == IF disposable THEN 30 ELSE 85
        b == IF role_email THEN a - 20 ELSE a
        c == IF mx_record THEN b ELSE b - 30
        d == IF PopularAddress(email) /\ c < 95 THEN 95 ELSE c
    IN  IF d < 0 THEN 0 ELSE IF d > 100 THEN 100 ELSE d

\* C9: for every email and every combination of the disposable, role_email
\* and mx_present flags, calculate_email_score returns the value of the
\* precedence 85, disposable overrides to 30, role -20, no MX -30, popular
\* provider at least 95, clamped to [0, 100]; an invalid-format email scores 0.
C9_ScorePrecedence ==
    scored.out # NoScore =>
        /\ scored.out \in 0..100
        /\ scored.out =
              IF scored.valid
              THEN SpecifiedScore(scored.email, scored.disposable,
                                  scored.mx_record, scored.role_email)
              ELSE 0

\* a disposable role address without MX, which the clamp brings up to 0
C9_Witness ==
    /\ scored.out = 0
    /\ scored.valid /\ scored.disposable /\ scored.role_email /\ ~scored.mx_record
    /\ ~PopularAddress(scored.email)

\* C7: a valid-format address at gmail.com, yahoo.com, outlook.com or
\* hotmail.com scores at least 95 whatever its role_email and mx_record flags,
\* in /verify and in every /batch result, unless strict mode is in effect and
\* the score is 0.
C7_PopularFloor ==
    /\ (VerifyResult /\ last.verify.valid_format /\ PopularAddress(last.verify.email))
          => (last.verify.score >= 95 \/ (StrictInEffect /\ last.verify.score = 0))
    /\ BatchDone =>
          \A i \in 1..Len(last.batch.results) :
              LET r == last.batch.results[i]
              IN  (r.valid_format /\ PopularAddress(r.email)) => r.score >= 95

\* a role address at a popular provider without MX, strict mode not in effect
C7_Witness ==
    /\ VerifyResult /\ last.verify.valid_format
    /\ PopularAddress(last.verify.email)
    /\ last.verify.role_email /\ ~last.verify.mx_record
    /\ ~StrictInEffect
    /\ last.verify.score = 95

\* C6: every classified string longer than 254 characters has
\* valid_format = false and score = 0, in /verify and in each /batch result.
C6_LongIsInvalid ==
    /\ (last.op = "verify" /\ last.verify.kind # "error"
            /\ Len(last.verify.email) > MaxEmailLen)
          => (~last.verify.valid_format /\ last.verify.score = 0)
    /\ BatchDone =>
          \A i \in 1..Len(last.batch.results) :
              LET r == last.batch.results[i]
              IN  Len(r.email) > MaxEmailLen => (~r.valid_format /\ r.score = 0)

\* the batch entries that are no string or have no local@domain.tld shape
MalformedEntries == {StrEntry(NotAnEmail), IntEntry(123)}

\* the batch entries of the right shape and length
WellFormedEntries == {StrEntry(AdminGmail)}

\* C8 as stated: in a batch every malformed or non-string entry has, at its
\* own position, a result with valid_format = false, score = 0 and a
\* processing-error marker, and there is one result per entry.
C8_MalformedIsMarked ==
    BatchDone =>
        /\ Len(last.batch.results) = Len(last.emails)
        /\ \A i \in 1..Len(last.emails) :
              last.emails[i] \in MalformedEntries =>
                  /\ ~last.batch.results[i].valid_format
                  /\ last.batch.results[i].score = 0
                  /\ last.batch.results[i].error # NoError

\* C8 as amended: in a batch every malformed or non-string entry has, at its
\* own position, a result with valid_format = false and score = 0 and no
\* processing-error marker; the batch is not aborted: there is one result per
\* entry, in the order of the entries, and a well-formed entry beside it is
\* evaluated as valid.
C8_MalformedIsInvalid ==
    BatchDone =>
        /\ Len(last.batch.results) = Len(last.emails)
        /\ last.batch.processed = Len(last.emails)
        /\ last.batch.total_emails = Len(last.emails)
        /\ \A i \in 1..Len(last.emails) :
              LET r == last.batch.results[i]
              IN  /\ r.email = strip(str(last.emails[i]))
                  /\ last.emails[i] \in MalformedEntries =>
                        (~r.valid_format /\ r.score = 0 /\ r.error = NoError)
                  /\ last.emails[i] \in WellFormedEntries =>
                        (r.valid_format /\ r.score > 0 /\ r.error = NoError)

\* a non-string entry first, a well-formed address after it
C8_Witness ==
    /\ BatchDone
    /\ Len(last.emails) = 2
    /\ last.emails[1] = IntEntry(123)
    /\ last.emails[2] \in WellFormedEntries
    /\ ~last.batch.results[1].valid_format
    /\ last.batch.results[2].valid_format

(***************************************************************************)
(* Properties of the middleware                                             *)
(***************************************************************************)
Done(r) == requests[r].pc = "done"

\* the request was let through to its route function
Allowed(r) == requests[r].handled

\* C4: the middleware answers a missing key with 401, a key without a row
\* with 403 (invalid), a row whose status is not active with 403 (suspended),
\* and lets a request with an active row pass authentication; a request it
\* rejects does not reach its route function.
C4_AuthOutcomes ==
    \A r \in 1..MaxReq :
        (requests[r].app = "asgi" /\ requests[r].pc \notin {"idle", "received"}) =>
            LET k == requests[r].api_key
            IN  /\ Done(r) => ~Allowed(r)
                /\ k = NoHeader => requests[r].status = 401
                /\ (k # NoHeader /\ k \notin DOMAIN api_keys) =>
                      (requests[r].status = 403 /\ requests[r].detail = "Invalid API key")
                /\ (k \in DOMAIN api_keys /\ api_keys[k].status # "active") =>
                      (requests[r].status = 403
                          /\ requests[r].detail = "API key suspended")
                /\ (k \in DOMAIN api_keys /\ api_keys[k].status = "active") =>
                      requests[r].pc = "line19"

\* C1: a request with an active key whose count for today is below the quota
\* is let through to the handler, and one whose count has reached the quota
\* is answered 429.
C1_QuotaSequential ==
    \A r \in 1..MaxReq :
        LET k == requests[r].api_key
        IN  (Done(r) /\ requests[r].app = "asgi" /\ k \in DOMAIN api_keys
                /\ api_keys[k].status = "active") =>
                IF get_usage(api_usage, k, Today) < api_keys[k].daily_quota
                THEN Allowed(r)
                ELSE requests[r].status = 429

\* C5: a request to / or /health without a key is served: it is not answered
\* 401, 403, 429 or with a server error.
C5_AllowListServed ==
    \A r \in 1..MaxReq :
        (Done(r) /\ requests[r].route \in AllowList /\ requests[r].api_key = NoHeader)
            => (Allowed(r) /\ requests[r].status = 200)

====
